---- MODULE Spec2Model ----
(***************************************************************************)
(* A model of the Digimon evolution API: the route handlers of             *)
(* src/routes/digimons.js, the DigimonService of                           *)
(* src/services/digimonService.js and the helpers of src/utils/validation. *)
(*                                                                         *)
(* A JavaScript string is a sequence of one-character strings.  A          *)
(* JavaScript value that reaches a helper is a record [t, s, n]: its type  *)
(* tag, its characters when it is a string, its value when it is a number. *)
(* Every handler runs as its own task and suspends at each `await` of a    *)
(* backend query; one action is the code between two suspension points.    *)
(***************************************************************************)
EXTENDS Integers, Sequences, FiniteSets

VARIABLES pc, route, query, locals, calls, result, response, fnCall

vars == <<pc, route, query, locals, calls, result, response, fnCall>>

-----------------------------------------------------------------------------
(* Bounds of the model *)

NumRequests == 2
MaxStrLen == 2
MaxNumLen == 2
LongSpan == 1
NumSpan == 2
MaxId == 2

(* Program constants *)

SearchTermMax == 100
PageDefault == 1
LimitDefault == 50
LimitMax == 100
LimitMin == 1
PageMin == 1
SearchLimitDefault == 10
SearchLimitMax == 50
SearchLimitMin == 1

Requests == 1 .. NumRequests
Ids == 1 .. MaxId

-----------------------------------------------------------------------------
(* JavaScript values *)

Null == [isNull |-> TRUE]

Undefined == [t |-> "undefined", s |-> <<>>, n |-> 0]
JsNull == [t |-> "null", s |-> <<>>, n |-> 0]
Str(s) == [t |-> "string", s |-> s, n |-> 0]
Num(n) == [t |-> "number", s |-> <<>>, n |-> n]

Min(a, b) == IF a <= b THEN a ELSE b
Max(a, b) == IF a >= b THEN a ELSE b

WhiteSpace == {" ", "\t"}
AngleBrackets == {"<", ">"}
DigitChars == <<"0", "1", "2", "3", "4", "5", "6", "7", "8", "9">>
IsDigit(c) == \E i \in 1 .. 10 : DigitChars[i] = c
DigitVal(c) == (CHOOSE i \in 1 .. 10 : DigitChars[i] = c) - 1

RECURSIVE TrimStart(_)
TrimStart(s) ==
    IF s # <<>> /\ Head(s) \in WhiteSpace THEN TrimStart(Tail(s)) ELSE s

RECURSIVE TrimEnd(_)
TrimEnd(s) ==
    IF s # <<>> /\ s[Len(s)] \in WhiteSpace
    THEN TrimEnd(SubSeq(s, 1, Len(s) - 1))
    ELSE s

\* String.prototype.trim
Trim(s) == TrimEnd(TrimStart(s))

\* .replace(/[<>]/g, '')
IsKept(c) == c \notin AngleBrackets
RemoveAngleBrackets(s) == SelectSeq(s, IsKept)

\* String.prototype.substring(0, n)
Substring0(s, n) == SubSeq(s, 1, Min(n, Len(s)))

\* Variant: truncating before the brackets are removed.
SanitizeOrderSwapped(s) == RemoveAngleBrackets(Substring0(Trim(s), SearchTermMax))
\* The chain of string operations sanitizeSearchTerm applies to a string.
SanitizeString(s) == Substring0(RemoveAngleBrackets(Trim(s)), SearchTermMax)

\* !term: undefined, null, the empty string, the number 0
IsFalsy(v) ==
    \/ v.t \in {"undefined", "null"}
    \/ v.t = "string" /\ v.s = <<>>
    \/ v.t = "number" /\ v.n = 0

sanitizeSearchTerm(term) ==
    IF IsFalsy(term) \/ term.t # "string" THEN <<>> ELSE SanitizeString(term.s)

-----------------------------------------------------------------------------
(* parseInt and validatePagination *)

RECURSIVE NatToString(_)
NatToString(n) ==
    IF n < 10 THEN <<DigitChars[n + 1]>>
    ELSE NatToString(n \div 10) \o <<DigitChars[(n % 10) + 1]>>

\* ToString of a JavaScript value, as parseInt applies it to its argument.
JsToString(v) ==
    CASE v.t = "string" -> v.s
      [] v.t = "number" -> IF v.n < 0 THEN <<"-">> \o NatToString(-v.n)
                                       ELSE NatToString(v.n)
      [] v.t = "null" -> <<"n", "u", "l", "l">>
      [] OTHER -> <<"u", "n", "d", "e", "f", "i", "n", "e", "d">>

RECURSIVE DigitPrefix(_)
DigitPrefix(s) ==
    IF s # <<>> /\ IsDigit(Head(s)) THEN <<Head(s)>> \o DigitPrefix(Tail(s))
    ELSE <<>>

RECURSIVE DigitsValue(_)
DigitsValue(ds) ==
    IF ds = <<>> THEN 0
    ELSE 10 * DigitsValue(SubSeq(ds, 1, Len(ds) - 1)) + DigitVal(ds[Len(ds)])

NaN == [nan |-> TRUE, n |-> 0]

\* parseInt(v): leading white space is skipped, then an optional sign, then
\* the longest run of decimal digits; NaN when that run is empty.  (A 0x
\* prefix selects radix 16; no input of the model carries one.)
parseInt(v) ==
    LET s == TrimStart(JsToString(v))
        neg == s # <<>> /\ Head(s) = "-"
        pos == s # <<>> /\ Head(s) = "+"
        body == IF neg \/ pos THEN Tail(s) ELSE s
        ds == DigitPrefix(body)
    IN  IF ds = <<>> THEN NaN
        ELSE [nan |-> FALSE,
              n |-> IF neg THEN -DigitsValue(ds) ELSE DigitsValue(ds)]

\* parseInt(x) || d : NaN and 0 are falsy
OrDefault(p, d) == IF p.nan \/ p.n = 0 THEN d ELSE p.n

\* Variant: the limit without its Math.min(100, ...).
validatePaginationNoUpperClamp(page, limit) ==
    [page |-> Max(PageMin, OrDefault(parseInt(page), PageDefault)),
     limit |-> Max(LimitMin, OrDefault(parseInt(limit), LimitDefault))]

validatePagination(page, limit) ==
    [page |-> Max(PageMin, OrDefault(parseInt(page), PageDefault)),
     limit |-> Min(LimitMax, Max(LimitMin, OrDefault(parseInt(limit), LimitDefault)))]

-----------------------------------------------------------------------------
(* Stored records and the formatter *)

DigimonNames == <<"Agumon", "Greymon", "MetalGreymon", "WarGreymon", "Omnimon">>
NameOf(id) == DigimonNames[((id - 1) % Len(DigimonNames)) + 1]
Names == {NameOf(id) : id \in Ids}

\* A row of the digimons table: the six public fields and one stored field
\* the public projection leaves out.
RawRow(id) ==
    [id |-> id, number |-> id, name |-> NameOf(id), stage |-> "IV",
     attribute |-> "Vaccine", image_url |-> "img", created_at |-> "2024"]

RowNamed(name) == RawRow(CHOOSE id \in Ids : NameOf(id) = name)

formatDigimon(digimon) ==
    IF digimon = Null THEN Null
    ELSE [id |-> digimon.id, number |-> digimon.number, name |-> digimon.name,
          stage |-> digimon.stage, attribute |-> digimon.attribute,
          image_url |-> digimon.image_url]

\* A JavaScript array is a record holding its items, so that an array and
\* null are values of one kind.
List(items) == [items |-> items]

\* data.map(formatDigimon), evolvesTo.map(e => formatDigimon(e.to_digimon)),
\* evolvesFrom.map(e => formatDigimon(e.from_digimon))
MapFormat(rows) ==
    List([i \in 1 .. Len(rows.items) |-> formatDigimon(rows.items[i])])
MapToDigimon(edges) ==
    List([i \in 1 .. Len(edges.items) |-> formatDigimon(edges.items[i].to_digimon)])
MapFromDigimon(edges) ==
    List([i \in 1 .. Len(edges.items) |-> formatDigimon(edges.items[i].from_digimon)])

-----------------------------------------------------------------------------
(* Backend replies: { data, error } and, for the list query, count *)

NoRowsCode == "PGRST116"
NoRowsError == [code |-> NoRowsCode]
OtherErrors == {[code |-> "57014"], [code |-> ""]}

Found(row) == [data |-> row, error |-> Null]
Failed(e) == [data |-> Null, error |-> e]

\* What .single() can answer for a lookup whose matching row would be `row`.
SingleReplies(row) ==
    {Found(row), Failed(NoRowsError)} \cup {Failed(e) : e \in OtherErrors}

ForwardReplies ==
    {Found(List(<<>>)), Found(List(<<[to_digimon |-> RawRow(MaxId)]>>)),
     Found(List(<<[to_digimon |-> RawRow(1)], [to_digimon |-> Null]>>))}
        \cup {Failed(e) : e \in OtherErrors}

BackwardReplies ==
    {Found(List(<<>>)), Found(List(<<[from_digimon |-> RawRow(1)]>>))}
        \cup {Failed(e) : e \in OtherErrors}

RequirementReplies ==
    {Found(List(<<>>)), Found(List(<<[digimon_id |-> 1, level |-> 10]>>))}
        \cup {Failed(e) : e \in OtherErrors}

SearchReplies ==
    {Found(List(<<>>)), Found(List(<<RawRow(1), RawRow(MaxId)>>))}
        \cup {Failed(e) : e \in OtherErrors}

-----------------------------------------------------------------------------
(* Outcomes of a service call and the response envelopes *)

NoResult == [kind |-> "none"]
Return(v) == [kind |-> "return", value |-> v]
Throw(msg) == [kind |-> "throw", error |-> msg]

NoResponse == [status |-> 0]

successResponse(data, message) ==
    [success |-> TRUE, data |-> data, message |-> message]
paginatedResponse(data, pagination) ==
    [success |-> TRUE, data |-> data, pagination |-> pagination]
errorResponse(error, statusCode) ==
    [success |-> FALSE, error |-> error, statusCode |-> statusCode]

\* reply.send(body) answers 200; reply.status(n).send(body) answers n.
Send(status, body) == [status |-> status, body |-> body]

\* An error thrown by a handler becomes a 5xx-class answer.
asyncHandler(res) == Send(500, errorResponse(res.error, 500))

-----------------------------------------------------------------------------
(* DigimonService: what each operation makes of the backend's reply *)

NotFoundMessage == "Digimon nao encontrado"   \* 'Digimon não encontrado'

Call(q, arg) == [q |-> q, arg |-> arg]

\* Variant: every backend error taken for "no rows".
AnyErrorIsNoRows(error) == TRUE

\* error.code !== 'PGRST116' is the negation of this
IsNoRows(error) == error.code = NoRowsCode

getDigimonById(reply) ==
    IF reply.error # Null /\ ~IsNoRows(reply.error)
    THEN Throw("Erro ao buscar Digimon por ID.")
    ELSE Return(formatDigimon(reply.data))

getDigimonByName(reply) ==
    IF reply.error # Null /\ ~IsNoRows(reply.error)
    THEN Throw("Erro ao buscar Digimon por nome.")
    ELSE Return(formatDigimon(reply.data))

searchDigimons(reply) ==
    IF reply.error # Null THEN Throw("Erro ao pesquisar Digimons.")
    ELSE Return(MapFormat(reply.data))

\* Variant: Math.floor in place of Math.ceil.
TotalPagesFloor(count, limit) == count \div limit

\* Math.ceil(count / limit), count >= 0 and limit >= 1
TotalPages(count, limit) ==
    IF count % limit = 0 THEN count \div limit ELSE (count \div limit) + 1

getAllDigimons(page, limit, reply) ==
    IF reply.error # Null THEN Throw("Nao foi possivel buscar os Digimons.")
    ELSE Return([data |-> MapFormat(reply.data),
                 pagination |-> [page |-> page, limit |-> limit,
                                 total |-> reply.count,
                                 totalPages |-> TotalPages(reply.count, limit)]])

\* Variant: no short-circuit on an absent base creature.
EvolutionNeverAbsent(digimon) == FALSE

\* if (!digimon) return { digimon: null }
EvolutionBaseAbsent(digimon) == digimon = Null

\* Variants: reqError left out of the test; and a failure flag kept on the
\* shared service object, so that one request's failure is seen by the others.
EvolutionFailedForgetsReq(evolvesToError, evolvesFromError, reqError) ==
    evolvesToError # Null \/ evolvesFromError # Null
EvolutionFailedShared(evolvesToError, evolvesFromError, reqError) ==
    \/ evolvesToError # Null \/ evolvesFromError # Null \/ reqError # Null
    \/ \E q \in Requests : result[q].kind = "throw"

\* if (evolvesToError || evolvesFromError || reqError)
EvolutionFailed(evolvesToError, evolvesFromError, reqError) ==
    evolvesToError # Null \/ evolvesFromError # Null \/ reqError # Null

\* The tail of getEvolutionData, once the three fan-out replies are in.
getEvolutionData(digimon, to, from, req) ==
    IF EvolutionFailed(to.error, from.error, req.error)
    THEN Throw("Erro ao buscar dados de evolucao.")
    ELSE Return([digimon |-> digimon,
                 evolves_to |-> MapToDigimon(to.data),
                 evolves_from |-> MapFromDigimon(from.data),
                 requirements |-> req.data])

getStats(total, stages) ==
    IF total.error # Null \/ stages.error # Null
    THEN Throw("Erro ao buscar estatisticas.")
    ELSE Return([total_digimons |-> total.count, count_by_stage |-> stages.data])

-----------------------------------------------------------------------------
(* Route layer: what each handler answers for the service's outcome *)

LookupRoute(res) ==
    IF res.kind = "throw" THEN asyncHandler(res)
    ELSE IF res.value = Null
         THEN Send(404, errorResponse(NotFoundMessage, 404))
         ELSE Send(200, successResponse(res.value, "Digimon encontrado"))

EvolutionRoute(res) ==
    IF res.kind = "throw" THEN asyncHandler(res)
    ELSE IF res.value.digimon = Null
         THEN Send(404, errorResponse(NotFoundMessage, 404))
         ELSE Send(200, successResponse(res.value, "Dados de evolucao recuperados"))

SearchRoute(res) ==
    IF res.kind = "throw" THEN asyncHandler(res)
    ELSE Send(200, successResponse(res.value,
                     [count |-> Len(res.value.items), text |-> " Digimons encontrados"]))

ListRoute(res) ==
    IF res.kind = "throw" THEN asyncHandler(res)
    ELSE Send(200, paginatedResponse(res.value.data, res.value.pagination))

StatsRoute(res) ==
    IF res.kind = "throw" THEN asyncHandler(res)
    ELSE Send(200, successResponse(res.value, "Estatisticas recuperadas com sucesso"))

\* Variant: the handler without its test of the term.
SearchTermNeverMissing(searchTerm) == FALSE

\* if (!searchTerm)
SearchTermMissing(searchTerm) == searchTerm = <<>>

\* Math.min(50, Math.max(1, parseInt(request.query.limit) || 10))
SearchLimit(limit) ==
    Min(SearchLimitMax, Max(SearchLimitMin, OrDefault(parseInt(limit), SearchLimitDefault)))

-----------------------------------------------------------------------------
(* The state machine *)

NoCall == [fn |-> "none", at |-> "none"]
NoFrame == [none |-> TRUE]

Init ==
    /\ pc = [r \in Requests |-> "idle"]
    /\ route = [r \in Requests |-> "none"]
    /\ query = [r \in Requests |-> NoFrame]
    /\ locals = [r \in Requests |-> NoFrame]
    /\ calls = [r \in Requests |-> <<>>]
    /\ result = [r \in Requests |-> NoResult]
    /\ response = [r \in Requests |-> NoResponse]
    /\ fnCall = NoCall

\* A request arrives on slot r: a fresh handler invocation with its own frame.
Arrive(r, rt, q) ==
    /\ pc[r] = "idle"
    /\ route' = [route EXCEPT ![r] = rt]
    /\ query' = [query EXCEPT ![r] = q]
    /\ UNCHANGED fnCall

\* The handler suspends at an await, having issued `call`.
Await(r, at, frame, call) ==
    /\ pc' = [pc EXCEPT ![r] = at]
    /\ locals' = [locals EXCEPT ![r] = frame]
    /\ calls' = [calls EXCEPT ![r] = Append(@, call)]
    /\ UNCHANGED <<route, query, result, response, fnCall>>

\* The handler ends: the service's outcome `res` and the answer sent.
Finish(r, frame, res, answer) ==
    /\ pc' = [pc EXCEPT ![r] = "done"]
    /\ locals' = [locals EXCEPT ![r] = frame]
    /\ result' = [result EXCEPT ![r] = res]
    /\ response' = [response EXCEPT ![r] = answer]
    /\ UNCHANGED <<route, query, calls, fnCall>>

\* The handler has returned and its answer is sent: the invocation's frame is
\* dropped, and the slot takes the next request.  The service object has no
\* field, so nothing of the request is left anywhere.
Recycle(r) ==
    /\ pc[r] = "done"
    /\ pc' = [pc EXCEPT ![r] = "idle"]
    /\ route' = [route EXCEPT ![r] = "none"]
    /\ query' = [query EXCEPT ![r] = NoFrame]
    /\ locals' = [locals EXCEPT ![r] = NoFrame]
    /\ calls' = [calls EXCEPT ![r] = <<>>]
    /\ result' = [result EXCEPT ![r] = NoResult]
    /\ response' = [response EXCEPT ![r] = NoResponse]
    /\ UNCHANGED fnCall

(* GET /:id *)
ReceiveById(r, id) ==
    /\ Arrive(r, "byId", [id |-> id])
    /\ pc' = [pc EXCEPT ![r] = "awaitById"]
    /\ locals' = [locals EXCEPT ![r] = [id |-> id]]
    /\ calls' = [calls EXCEPT ![r] = <<Call("digimons.byId", [id |-> id])>>]
    /\ result' = [result EXCEPT ![r] = NoResult]
    /\ response' = [response EXCEPT ![r] = NoResponse]

ReplyById(r, reply) ==
    /\ pc[r] = "awaitById"
    /\ reply \in SingleReplies(RawRow(locals[r].id))
    /\ LET res == getDigimonById(reply)
       IN  Finish(r, [id |-> locals[r].id, base |-> reply], res, LookupRoute(res))

(* GET /name/:name *)
ReceiveByName(r, name) ==
    /\ Arrive(r, "byName", [name |-> name])
    /\ pc' = [pc EXCEPT ![r] = "awaitByName"]
    /\ locals' = [locals EXCEPT ![r] = [name |-> name]]
    /\ calls' = [calls EXCEPT ![r] = <<Call("digimons.byName", [name |-> name])>>]
    /\ result' = [result EXCEPT ![r] = NoResult]
    /\ response' = [response EXCEPT ![r] = NoResponse]

ReplyByName(r, reply) ==
    /\ pc[r] = "awaitByName"
    /\ reply \in SingleReplies(RowNamed(locals[r].name))
    /\ LET res == getDigimonByName(reply)
       IN  Finish(r, [name |-> locals[r].name, base |-> reply], res, LookupRoute(res))

(* GET /search *)
ReceiveSearch(r, q, limit) ==
    /\ Arrive(r, "search", [q |-> q, limit |-> limit])
    /\ LET searchTerm == sanitizeSearchTerm(q)
           lim == SearchLimit(limit)
           frame == [searchTerm |-> searchTerm, limit |-> lim]
       IN  IF SearchTermMissing(searchTerm)
           THEN /\ pc' = [pc EXCEPT ![r] = "done"]
                /\ locals' = [locals EXCEPT ![r] = frame]
                /\ calls' = [calls EXCEPT ![r] = <<>>]
                /\ result' = [result EXCEPT ![r] = NoResult]
                /\ response' = [response EXCEPT ![r] =
                       Send(400, errorResponse("Termo de busca e obrigatorio", 400))]
           ELSE /\ pc' = [pc EXCEPT ![r] = "awaitSearch"]
                /\ locals' = [locals EXCEPT ![r] = frame]
                /\ calls' = [calls EXCEPT ![r] = <<Call("digimons.search", frame)>>]
                /\ result' = [result EXCEPT ![r] = NoResult]
                /\ response' = [response EXCEPT ![r] = NoResponse]

ReplySearch(r, reply) ==
    /\ pc[r] = "awaitSearch"
    /\ LET res == searchDigimons(reply)
       IN  Finish(r, [searchTerm |-> locals[r].searchTerm, limit |-> locals[r].limit,
                      base |-> reply],
                  res, SearchRoute(res))

(* GET / *)
ReceiveList(r, page, limit, stage) ==
    /\ Arrive(r, "list", [page |-> page, limit |-> limit, stage |-> stage])
    /\ LET v == validatePagination(page, limit)
           from == (v.page - 1) * v.limit
           to == from + v.limit - 1
           frame == [page |-> v.page, limit |-> v.limit, stage |-> stage]
       IN  /\ pc' = [pc EXCEPT ![r] = "awaitList"]
           /\ locals' = [locals EXCEPT ![r] = frame]
           /\ calls' = [calls EXCEPT ![r] =
                  <<Call("digimons.list",
                         [from |-> from, to |-> to, filtered |-> ~IsFalsy(stage)])>>]
           /\ result' = [result EXCEPT ![r] = NoResult]
           /\ response' = [response EXCEPT ![r] = NoResponse]

ReplyList(r, reply) ==
    /\ pc[r] = "awaitList"
    /\ LET res == getAllDigimons(locals[r].page, locals[r].limit, reply)
       IN  Finish(r, [page |-> locals[r].page, limit |-> locals[r].limit,
                      stage |-> locals[r].stage, base |-> reply],
                  res, ListRoute(res))

(* GET /:id/evolutions *)
ReceiveEvolutions(r, id) ==
    /\ Arrive(r, "evolutions", [id |-> id])
    /\ pc' = [pc EXCEPT ![r] = "awaitEvoBase"]
    /\ locals' = [locals EXCEPT ![r] = [id |-> id]]
    /\ calls' = [calls EXCEPT ![r] = <<Call("digimons.byId", [id |-> id])>>]
    /\ result' = [result EXCEPT ![r] = NoResult]
    /\ response' = [response EXCEPT ![r] = NoResponse]

ReplyEvoBase(r, reply) ==
    /\ pc[r] = "awaitEvoBase"
    /\ reply \in SingleReplies(RawRow(locals[r].id))
    /\ LET id == locals[r].id
           got == getDigimonById(reply)
       IN  IF got.kind = "throw"
           THEN Finish(r, [id |-> id, base |-> reply], got, EvolutionRoute(got))
           ELSE IF EvolutionBaseAbsent(got.value)
           THEN Finish(r, [id |-> id, base |-> reply],
                       Return([digimon |-> Null]),
                       EvolutionRoute(Return([digimon |-> Null])))
           ELSE Await(r, "awaitEvoTo",
                      [id |-> id, base |-> reply, digimon |-> got.value],
                      Call("evolutions.to", [id |-> id]))

\* Variant: failing as soon as the forward query reports an error.
ReplyEvoToFailFast(r, reply) ==
    /\ pc[r] = "awaitEvoTo"
    /\ IF reply.error # Null
       THEN Finish(r, [id |-> locals[r].id, base |-> locals[r].base,
                       digimon |-> locals[r].digimon, to |-> reply],
                   Throw("Erro ao buscar dados de evolucao."),
                   asyncHandler(Throw("Erro ao buscar dados de evolucao.")))
       ELSE Await(r, "awaitEvoFrom",
                  [id |-> locals[r].id, base |-> locals[r].base,
                   digimon |-> locals[r].digimon, to |-> reply],
                  Call("evolutions.from", [id |-> locals[r].id]))

ReplyEvoTo(r, reply) ==
    /\ pc[r] = "awaitEvoTo"
    /\ Await(r, "awaitEvoFrom",
             [id |-> locals[r].id, base |-> locals[r].base,
              digimon |-> locals[r].digimon, to |-> reply],
             Call("evolutions.from", [id |-> locals[r].id]))

ReplyEvoFrom(r, reply) ==
    /\ pc[r] = "awaitEvoFrom"
    /\ Await(r, "awaitEvoReq",
             [id |-> locals[r].id, base |-> locals[r].base,
              digimon |-> locals[r].digimon, to |-> locals[r].to, from |-> reply],
             Call("requirements", [id |-> locals[r].id]))

ReplyEvoReq(r, reply) ==
    /\ pc[r] = "awaitEvoReq"
    /\ LET f == locals[r]
           res == getEvolutionData(f.digimon, f.to, f.from, reply)
       IN  Finish(r, [id |-> f.id, base |-> f.base, digimon |-> f.digimon,
                      to |-> f.to, from |-> f.from, req |-> reply],
                  res, EvolutionRoute(res))

(* GET /stats *)
ReceiveStats(r) ==
    /\ Arrive(r, "stats", NoFrame)
    /\ pc' = [pc EXCEPT ![r] = "awaitStatsTotal"]
    /\ locals' = [locals EXCEPT ![r] = NoFrame]
    /\ calls' = [calls EXCEPT ![r] = <<Call("digimons.count", NoFrame)>>]
    /\ result' = [result EXCEPT ![r] = NoResult]
    /\ response' = [response EXCEPT ![r] = NoResponse]

ReplyStatsTotal(r, reply) ==
    /\ pc[r] = "awaitStatsTotal"
    /\ Await(r, "awaitStatsStages", [total |-> reply],
             Call("rpc.count_digimons_by_stage", NoFrame))

ReplyStatsStages(r, reply) ==
    /\ pc[r] = "awaitStatsStages"
    /\ LET res == getStats(locals[r].total, reply)
       IN  Finish(r, [total |-> locals[r].total, stages |-> reply], res, StatsRoute(res))

(* Direct calls of the exported helpers: the call is pending with its
   arguments, and returns the helper's value *)
ReturnValidatePagination ==
    /\ fnCall.fn = "validatePagination" /\ fnCall.at = "called"
    /\ fnCall' = [fn |-> "validatePagination", at |-> "returned",
                  page |-> fnCall.page, limit |-> fnCall.limit,
                  out |-> validatePagination(fnCall.page, fnCall.limit)]
    /\ UNCHANGED <<pc, route, query, locals, calls, result, response>>

ReturnSanitizeSearchTerm ==
    /\ fnCall.fn = "sanitizeSearchTerm" /\ fnCall.at = "called"
    /\ fnCall' = [fn |-> "sanitizeSearchTerm", at |-> "returned",
                  term |-> fnCall.term, out |-> sanitizeSearchTerm(fnCall.term)]
    /\ UNCHANGED <<pc, route, query, locals, calls, result, response>>

-----------------------------------------------------------------------------
(* Inputs and backend replies the specifications draw from *)

Strings(alphabet, n) == UNION {[1 .. k -> alphabet] : k \in 0 .. n}
Repeat(c, n) == [i \in 1 .. n |-> c]
Alternate(c, d, n) == [i \in 1 .. n |-> IF i % 2 = 1 THEN c ELSE d]

SearchAlphabet == {" ", "<", ">", "a", "/"}
ScriptExample ==
    <<"<", "s", "c", "r", "i", "p", "t", ">", "a",
      "<", "/", "s", "c", "r", "i", "p", "t", ">">>

\* Strings around the truncation length, with and without characters that
\* trimming and bracket removal take away.
LongStrings ==
    {pre \o Repeat("a", n) \o suf :
        pre \in Strings(SearchAlphabet, MaxStrLen), suf \in Strings(SearchAlphabet, 1),
        n \in (SearchTermMax - LongSpan) .. (SearchTermMax + LongSpan)}
    \cup {Alternate("<", "a", n) :
        n \in (2 * SearchTermMax - LongSpan) .. (2 * SearchTermMax + LongSpan + 2)}

SearchTerms ==
    {Undefined, JsNull, Num(0), Num(7)}
        \cup {Str(x) : x \in Strings(SearchAlphabet, MaxStrLen) \cup {<<"\t">>, <<"\t", "a", "\t">>}}
        \cup {Str(x) : x \in LongStrings \cup {ScriptExample}}

NumAlphabet == {"0", "1", "-", "a"}
NumberInputs ==
    {Undefined, JsNull}
        \cup {Num(n) : n \in (0 - NumSpan) .. NumSpan}
        \cup {Num(n) : n \in (LimitMax - NumSpan) .. (LimitMax + NumSpan)}
        \cup {Str(x) : x \in Strings(NumAlphabet, MaxNumLen)}
        \cup {Str(x) : x \in {<<" ", "7">>, <<"+", "5">>, <<"0", ".", "5">>,
                               <<"1", "2", "5">>, <<"-", "0">>, <<"9", "9">>,
                               <<"1", "0", "1">>, <<"5", "a">>}}

StageInputs == {Undefined, Str(<<"I", "V">>)}

Counts == {0, 1, 99, 100, 101, 125}
ListOk(rows, count) == [data |-> List(rows), error |-> Null, count |-> count]
ListFailed(e) == [data |-> Null, error |-> e, count |-> Null]
CountOk(count) == [count |-> count, error |-> Null]
CountFailed(e) == [count |-> Null, error |-> e]
StageCounts == [I |-> 1, IV |-> 2]

\* The small sets the concurrent specification draws from.
OneError == [code |-> "57014"]
FewSingleReplies(row) == {Found(row), Failed(NoRowsError), Failed(OneError)}
FewListReplies == {Found(List(<<>>)), Failed(OneError)}
FewTerms == {Str(<<" ">>), Str(<<"a">>)}

-----------------------------------------------------------------------------
(* Spec: requests in flight at once on the one service instance *)

Next ==
    \E r \in Requests :
        \/ \E id \in Ids : ReceiveById(r, id)
        \/ \E id \in Ids : \E reply \in FewSingleReplies(RawRow(id)) : ReplyById(r, reply)
        \/ ReceiveByName(r, NameOf(1))
        \/ \E reply \in FewSingleReplies(RawRow(1)) : ReplyByName(r, reply)
        \/ \E q \in FewTerms : ReceiveSearch(r, q, Undefined)
        \/ \E reply \in FewListReplies : ReplySearch(r, reply)
        \/ ReceiveList(r, Undefined, Undefined, Undefined)
        \/ ReplyList(r, ListOk(<<>>, 0))
        \/ ReplyList(r, ListFailed(OneError))
        \/ \E id \in Ids : ReceiveEvolutions(r, id)
        \/ \E id \in Ids : \E reply \in FewSingleReplies(RawRow(id)) : ReplyEvoBase(r, reply)
        \/ \E reply \in FewListReplies : ReplyEvoTo(r, reply)
        \/ \E reply \in FewListReplies : ReplyEvoFrom(r, reply)
        \/ \E reply \in FewListReplies : ReplyEvoReq(r, reply)
        \/ ReceiveStats(r)
        \/ ReplyStatsTotal(r, CountOk(1))
        \/ ReplyStatsTotal(r, CountFailed(OneError))
        \/ \E reply \in {Found(StageCounts), Failed(OneError)} : ReplyStatsStages(r, reply)
        \/ Recycle(r)

Spec == Init /\ [][Next]_vars

(* SpecLookup: one request at a time through the three lookup routes, with
   every reply the backend can give *)

NextLookup ==
    \E r \in {1} :
        \/ \E id \in Ids : ReceiveById(r, id)
        \/ \E id \in Ids : \E reply \in SingleReplies(RawRow(id)) : ReplyById(r, reply)
        \/ \E name \in Names : ReceiveByName(r, name)
        \/ \E id \in Ids : \E reply \in SingleReplies(RawRow(id)) : ReplyByName(r, reply)
        \/ \E id \in Ids : ReceiveEvolutions(r, id)
        \/ \E id \in Ids : \E reply \in SingleReplies(RawRow(id)) : ReplyEvoBase(r, reply)
        \/ \E reply \in ForwardReplies : ReplyEvoTo(r, reply)
        \/ \E reply \in BackwardReplies : ReplyEvoFrom(r, reply)
        \/ \E reply \in RequirementReplies : ReplyEvoReq(r, reply)
        \/ Recycle(r)

SpecLookup == Init /\ [][NextLookup]_vars

(* SpecSearch: the search route on every search term *)

NextSearch ==
    \E r \in {1} :
        \/ /\ pc[r] = "idle"
           /\ \E q \in SearchTerms : \E limit \in {Undefined, Num(SearchLimitMax + 1)} :
                  ReceiveSearch(r, q, limit)
        \/ \E reply \in SearchReplies : ReplySearch(r, reply)
        \/ Recycle(r)

SpecSearch == Init /\ [][NextSearch]_vars

(* SpecList: the list route on every pair of pagination inputs *)

NextList ==
    \E r \in {1} :
        \/ /\ pc[r] = "idle"
           /\ \E page \in NumberInputs : \E limit \in NumberInputs :
                  \E stage \in StageInputs : ReceiveList(r, page, limit, stage)
        \/ \E count \in Counts : ReplyList(r, ListOk(<<RawRow(1)>>, count))
        \/ \E e \in OtherErrors : ReplyList(r, ListFailed(e))
        \/ Recycle(r)

SpecList == Init /\ [][NextList]_vars

(* SpecValidate: the exported helpers called directly *)

InitValidate ==
    /\ pc = [r \in Requests |-> "idle"]
    /\ route = [r \in Requests |-> "none"]
    /\ query = [r \in Requests |-> NoFrame]
    /\ locals = [r \in Requests |-> NoFrame]
    /\ calls = [r \in Requests |-> <<>>]
    /\ result = [r \in Requests |-> NoResult]
    /\ response = [r \in Requests |-> NoResponse]
    /\ \/ \E page \in NumberInputs : \E limit \in NumberInputs :
              fnCall = [fn |-> "validatePagination", at |-> "called",
                        page |-> page, limit |-> limit]
       \/ \E term \in SearchTerms :
              fnCall = [fn |-> "sanitizeSearchTerm", at |-> "called", term |-> term]

NextValidate == ReturnValidatePagination \/ ReturnSanitizeSearchTerm

SpecValidate == InitValidate /\ [][NextValidate]_vars

-----------------------------------------------------------------------------
(* Properties *)

Has(f, k) == k \in DOMAIN f
CallNames(r) == [i \in 1 .. Len(calls[r]) |-> calls[r][i].q]
PublicFields == {"id", "number", "name", "stage", "attribute", "image_url"}

\* item is the public projection of the stored row raw (null for null)
IsProjection(item, raw) ==
    IF raw = Null THEN item = Null
    ELSE /\ DOMAIN item = PublicFields
         /\ \A k \in PublicFields : item[k] = raw[k]

\* C1: when the base lookup of getEvolutionData finds no row, the result's
\* digimon is null, the base lookup is the only backend call of the request,
\* and the /:id/evolutions route answers 404.
C1_AbsentBaseShortCircuits ==
    \A r \in Requests :
        (/\ route[r] = "evolutions"
         /\ Has(locals[r], "base")
         /\ locals[r].base.data = Null
         /\ locals[r].base.error = NoRowsError)
        => /\ pc[r] = "done"
           /\ result[r].kind = "return"
           /\ result[r].value.digimon = Null
           /\ CallNames(r) = <<"digimons.byId">>
           /\ response[r].status = 404

C1_Witness ==
    \E r \in Requests :
        /\ route[r] = "evolutions" /\ pc[r] = "done"
        /\ locals[r].base.error = NoRowsError
        /\ response[r].status = 404

\* C2: with the base creature found, getEvolutionData throws, returning
\* nothing that was fetched, when any of the three fan-out replies carries an
\* error; when none does it returns the base creature, the formatted forward
\* and backward lists and the requirement rows as the backend gave them.
C2_AllOrError ==
    \A r \in Requests :
        (route[r] = "evolutions" /\ pc[r] = "done" /\ Has(locals[r], "req"))
        => LET f == locals[r]
               anyError == f.to.error # Null \/ f.from.error # Null \/ f.req.error # Null
           IN  IF anyError
               THEN /\ result[r].kind = "throw"
                    /\ DOMAIN result[r] = {"kind", "error"}
               ELSE /\ result[r].kind = "return"
                    /\ IsProjection(result[r].value.digimon, f.base.data)
                    /\ result[r].value.digimon # Null
                    /\ Len(result[r].value.evolves_to.items) = Len(f.to.data.items)
                    /\ \A i \in 1 .. Len(f.to.data.items) :
                           IsProjection(result[r].value.evolves_to.items[i],
                                        f.to.data.items[i].to_digimon)
                    /\ Len(result[r].value.evolves_from.items) = Len(f.from.data.items)
                    /\ \A i \in 1 .. Len(f.from.data.items) :
                           IsProjection(result[r].value.evolves_from.items[i],
                                        f.from.data.items[i].from_digimon)
                    /\ result[r].value.requirements = f.req.data

C2_Witness ==
    \E r \in Requests :
        /\ route[r] = "evolutions" /\ pc[r] = "done" /\ Has(locals[r], "req")
        /\ locals[r].to.error = Null /\ locals[r].to.data.items # <<>>
        /\ locals[r].from.error = Null
        /\ locals[r].req.error # Null
        /\ result[r].kind = "throw"

\* C3: in getDigimonById and getDigimonByName a PGRST116 reply is no error:
\* the result is the absence marker and the route answers 404 with
\* {success: false, error: 'Digimon nao encontrado', statusCode: 404}; any
\* other backend error is thrown, and is neither an absence nor a 404.
C3_NoRowsIsAbsence ==
    \A r \in Requests :
        (route[r] \in {"byId", "byName"} /\ pc[r] = "done")
        => LET e == locals[r].base.error
           IN  /\ e = NoRowsError
                    => /\ result[r] = Return(Null)
                       /\ response[r].status = 404
                       /\ response[r].body =
                              [success |-> FALSE, error |-> NotFoundMessage,
                               statusCode |-> 404]
               /\ (e # Null /\ e # NoRowsError)
                    => /\ result[r].kind = "throw"
                       /\ response[r].status # 404
                       /\ response[r].status # 200

C3_Witness ==
    \E r \in Requests :
        /\ route[r] = "byId" /\ pc[r] = "done"
        /\ locals[r].base.error = NoRowsError
        /\ response[r].status = 404

\* C4: a search request whose sanitized term is empty is answered 400 with no
\* call of searchDigimons and no backend call; every call of searchDigimons
\* carries the request's sanitized term, which is not empty.
C4_EmptyTermIsRejected ==
    \A r \in Requests :
        route[r] = "search"
        => /\ sanitizeSearchTerm(query[r].q) = <<>>
                => /\ pc[r] = "done"
                   /\ response[r].status = 400
                   /\ calls[r] = <<>>
                   /\ result[r] = NoResult
           /\ \A i \in 1 .. Len(calls[r]) :
                  /\ calls[r][i].q = "digimons.search"
                  /\ calls[r][i].arg.searchTerm # <<>>
                  /\ calls[r][i].arg.searchTerm = sanitizeSearchTerm(query[r].q)

C4_Witness ==
    \E r \in Requests :
        /\ route[r] = "search" /\ pc[r] = "done"
        /\ query[r].q.t = "string" /\ query[r].q.s # <<>>
        /\ response[r].status = 400
        /\ calls[r] = <<>>

\* C5: validatePagination clamps a numeric limit at both ends: a limit above
\* 100 gives 100, a limit below 1 (zero and the negatives) gives 1.
C5_LimitClampedAtBothEnds ==
    (fnCall.fn = "validatePagination" /\ fnCall.at = "returned"
        /\ fnCall.limit.t = "number")
    => /\ fnCall.limit.n > LimitMax => fnCall.out.limit = LimitMax
       /\ fnCall.limit.n < LimitMin => fnCall.out.limit = LimitMin

\* C6: whatever pair the list route is given, validatePagination returns an
\* integer page >= 1 and an integer limit in 1..100; the getAllDigimons call
\* and the pagination envelope carry that pair.
C6_PaginationInRange ==
    \A r \in Requests :
        (route[r] = "list" /\ pc[r] # "idle")
        => /\ locals[r].page \in Nat /\ locals[r].page >= 1
           /\ locals[r].limit \in Nat
           /\ locals[r].limit >= 1 /\ locals[r].limit <= 100
           /\ Len(calls[r]) = 1
           /\ calls[r][1].arg.from = (locals[r].page - 1) * locals[r].limit
           /\ calls[r][1].arg.to - calls[r][1].arg.from + 1 = locals[r].limit
           /\ (pc[r] = "done" /\ result[r].kind = "return")
                => /\ response[r].body.pagination.page >= 1
                   /\ response[r].body.pagination.limit >= 1
                   /\ response[r].body.pagination.limit <= 100

C6_Witness ==
    \E r \in Requests :
        /\ route[r] = "list" /\ pc[r] = "done" /\ result[r].kind = "return"
        /\ query[r].limit = Num(LimitMax + 1)
        /\ query[r].page.t = "string" /\ parseInt(query[r].page).nan
        /\ response[r].body.pagination.limit = 100
        /\ response[r].body.pagination.page = 1

\* C7: a successful getAllDigimons returns the page and the limit it was
\* called with, total = the backend's count, and totalPages = the least
\* number of pages of `limit` rows that hold `total` rows.
C7_TotalPagesIsCeiling ==
    \A r \in Requests :
        (route[r] = "list" /\ pc[r] = "done" /\ result[r].kind = "return")
        => LET p == result[r].value.pagination
           IN  /\ p.page = locals[r].page
               /\ p.limit = locals[r].limit
               /\ p.total = locals[r].base.count
               /\ p.totalPages \in Nat
               /\ p.totalPages * p.limit >= p.total
               /\ (p.totalPages - 1) * p.limit < p.total
               /\ (p.total = 125 /\ p.limit = 50) => p.totalPages = 3
               /\ p.total = 0 => p.totalPages = 0
               /\ response[r].body.pagination = p

C7_Witness ==
    \E r \in Requests :
        /\ route[r] = "list" /\ pc[r] = "done" /\ result[r].kind = "return"
        /\ result[r].value.pagination.total = 125
        /\ result[r].value.pagination.limit = 50
        /\ result[r].value.pagination.totalPages = 3

\* The status a request's own input and own replies call for, and whether
\* the body sent is made of the request's own replies.
OwnStatus(r) ==
    LET f == locals[r]
        failed(reply) == reply.error # Null
        lookup(reply) ==
            IF reply.error = Null THEN 200
            ELSE IF reply.error.code = NoRowsCode THEN 404 ELSE 500
    IN  CASE route[r] \in {"byId", "byName"} -> lookup(f.base)
          [] route[r] = "search" ->
                IF ~Has(f, "base") THEN 400
                ELSE IF failed(f.base) THEN 500 ELSE 200
          [] route[r] = "list" -> IF failed(f.base) THEN 500 ELSE 200
          [] route[r] = "evolutions" ->
                IF ~Has(f, "req") THEN lookup(f.base)
                ELSE IF failed(f.to) \/ failed(f.from) \/ failed(f.req)
                     THEN 500 ELSE 200
          [] route[r] = "stats" ->
                IF failed(f.total) \/ failed(f.stages) THEN 500 ELSE 200

OwnBody(r) ==
    LET f == locals[r]
        body == response[r].body
    IN  IF response[r].status # 200 THEN ~body.success /\ ~Has(body, "data")
        ELSE CASE route[r] \in {"byId", "byName"} ->
                    IsProjection(body.data, f.base.data)
               [] route[r] = "search" ->
                    Len(body.data.items) = Len(f.base.data.items)
               [] route[r] = "list" ->
                    /\ Len(body.data.items) = Len(f.base.data.items)
                    /\ body.pagination.total = f.base.count
               [] route[r] = "evolutions" ->
                    /\ IsProjection(body.data.digimon, f.base.data)
                    /\ Len(body.data.evolves_to.items) = Len(f.to.data.items)
                    /\ Len(body.data.evolves_from.items) = Len(f.from.data.items)
                    /\ body.data.requirements = f.req.data
               [] route[r] = "stats" ->
                    /\ body.data.total_digimons = f.total.count
                    /\ body.data.count_by_stage = f.stages.data

\* C8: with several requests in flight on the one service instance, the
\* status and the body of each answer are decided by the request's own input
\* and the replies to its own queries, whatever the other requests did; a
\* request that has not answered yet holds no outcome.
C8_RequestsAreIsolated ==
    \A r \in Requests :
        IF pc[r] = "done"
        THEN /\ response[r].status = OwnStatus(r)
             /\ OwnBody(r)
             /\ (result[r].kind = "throw") = (response[r].status = 500)
        ELSE result[r] = NoResult /\ response[r] = NoResponse

C8_Witness ==
    \E r \in Requests : \E q \in Requests \ {r} :
        /\ route[r] = "evolutions" /\ pc[r] = "awaitEvoReq"
        /\ locals[r].to.error # Null
        /\ route[q] = "evolutions" /\ pc[q] = "awaitEvoReq"
        /\ locals[q].to.error = Null /\ locals[q].from.error = Null

\* C9: sanitizeSearchTerm returns the empty string for an input that is no
\* string; for a string it returns the first 100 of the characters that lie
\* between the first and the last non-white-space character and are no angle
\* bracket, in their order; '<script>a</script>' gives 'scripta/script'.
C9_SanitizeContract ==
    (fnCall.fn = "sanitizeSearchTerm" /\ fnCall.at = "returned")
    => LET s == fnCall.term.s
           out == fnCall.out
           nonWs == {i \in 1 .. Len(s) : s[i] \notin WhiteSpace}
           inner == {i \in 1 .. Len(s) :
                       /\ s[i] \notin AngleBrackets
                       /\ \E j \in nonWs : j <= i
                       /\ \E j \in nonWs : j >= i}
           rank(i) == Cardinality({j \in inner : j <= i})
       IN  IF fnCall.term.t # "string" THEN out = <<>>
           ELSE /\ Len(out) = Min(100, Cardinality(inner))
                /\ Len(out) <= 100
                /\ \A k \in 1 .. Len(out) : out[k] \notin {"<", ">"}
                /\ \A i \in inner : rank(i) <= 100 => out[rank(i)] = s[i]
                /\ s = ScriptExample
                     => out = <<"s", "c", "r", "i", "p", "t", "a", "/",
                                "s", "c", "r", "i", "p", "t">>

C9_Witness ==
    /\ fnCall.fn = "sanitizeSearchTerm" /\ fnCall.at = "returned"
    /\ fnCall.term.t = "string"
    /\ Len(fnCall.term.s) > 100
    /\ \E i \in 1 .. 100 : fnCall.term.s[i] \in AngleBrackets
    /\ Head(fnCall.term.s) \in WhiteSpace
    /\ Len(fnCall.out) = 100

\* C10: with the base creature found, getEvolutionData issues the forward,
\* the backward and the requirement query once each and in that order, each
\* after the reply to the one before it, and has no outcome before the three
\* replies are in; an error in an earlier reply neither stops the later
\* queries nor repeats one.
C10_FanOutInOrder ==
    \A r \in Requests :
        route[r] = "evolutions"
        => LET f == locals[r]
               names == CallNames(r)
               all == <<"digimons.byId", "evolutions.to", "evolutions.from",
                        "requirements">>
           IN  /\ pc[r] = "awaitEvoBase" => names = SubSeq(all, 1, 1)
               /\ pc[r] = "awaitEvoTo" => names = SubSeq(all, 1, 2)
               /\ pc[r] = "awaitEvoFrom"
                    => names = SubSeq(all, 1, 3) /\ Has(f, "to")
               /\ pc[r] = "awaitEvoReq"
                    => names = all /\ Has(f, "to") /\ Has(f, "from")
               /\ pc[r] # "done" => result[r] = NoResult /\ response[r] = NoResponse
               /\ (pc[r] = "done" /\ Has(f, "digimon"))
                    => /\ names = all
                       /\ Has(f, "to") /\ Has(f, "from") /\ Has(f, "req")
               /\ \A i \in 1 .. Len(calls[r]) : calls[r][i].arg = [id |-> query[r].id]

C10_Witness ==
    \E r \in Requests :
        /\ route[r] = "evolutions" /\ pc[r] = "done" /\ Has(locals[r], "req")
        /\ locals[r].to.error # Null
        /\ locals[r].from.error = Null /\ locals[r].req.error = Null
        /\ Len(calls[r]) = 4
        /\ result[r].kind = "throw"

====
